---- MODULE Spec2Model ----
(***************************************************************************)
(* A model of yahoo_fin/stock_info.py: the chart/quote fetchers, the       *)
(* embedded-JSON extraction with its text-level raw/formatted repair, the  *)
(* paginated earnings retrieval and the numeric normaliser.                *)
(*                                                                         *)
(* JSON text is a sequence of lexical units: the punctuation characters    *)
(* { } [ ] , : " and the space, each a unit of its own, and maximal runs   *)
(* of letters or digits (words), each one unit.  str.replace and re.sub    *)
(* act on that text exactly as they act on the characters, because the     *)
(* patterns of the source ('{}' and {"raw":...,...}) are made of           *)
(* punctuation and of the whole word raw between two quotes.               *)
(***************************************************************************)
EXTENDS Integers, Sequences, FiniteSets, TLC

VARIABLES
    op,        \* the public operation being executed, "idle" when none
    pc,        \* position inside the operation
    args,      \* the arguments of the call
    requests,  \* the HTTP requests issued so far, in order
    resp,      \* the response (or page) the last request received
    result,    \* what the call returned or raised
    doc,       \* the store document embedded in the page under extraction
    earn,      \* the state of the earnings retrieval
    num,       \* the input string of the numeric normaliser
    clock,     \* the current time, in Unix seconds
    built      \* the build_url calls made so far: arguments, time, result

vars == <<op, pc, args, requests, resp, result, doc, earn, num, clock, built>>

----------------------------------------------------------------------------
(* JSON values.  Every value is a record of the same shape, so that any two *)
(* values can be compared: t is the type, a the units of a scalar, keys and *)
(* kids the members of an object (kids alone: the items of a list).         *)

JNull == [t |-> "null", a |-> <<>>, keys |-> <<>>, kids |-> <<>>]
JNum(w) == [t |-> "num", a |-> <<w>>, keys |-> <<>>, kids |-> <<>>]
JStr(s) == [t |-> "str", a |-> s, keys |-> <<>>, kids |-> <<>>]
JList(items) == [t |-> "list", a |-> <<>>, keys |-> <<>>, kids |-> items]
JObj(ks, vs) == [t |-> "obj", a |-> <<>>, keys |-> ks, kids |-> vs]

\* Python's None, returned where a function falls off its end.
PyNone == [t |-> "None", a |-> <<>>, keys |-> <<>>, kids |-> <<>>]

Digits == {"0", "1", "2", "3"}

IndexOf(seq, x) == IF \E i \in 1..Len(seq) : seq[i] = x
                   THEN CHOOSE i \in 1..Len(seq) : seq[i] = x /\ \A j \in 1..(i-1) : seq[j] # x
                   ELSE 0

HasKey(v, k) == v.t = "obj" /\ IndexOf(v.keys, k) > 0

Get(v, k) == v.kids[IndexOf(v.keys, k)]

\* dict[k] = x: a key already present keeps its position and takes the new value.
ObjPut(ks, vs, k, x) ==
    IF IndexOf(ks, k) > 0
    THEN <<ks, [vs EXCEPT ![IndexOf(ks, k)] = x]>>
    ELSE <<Append(ks, k), Append(vs, x)>>

\* del dict[k]
ObjDel(v, k) ==
    LET i == IndexOf(v.keys, k)
        keep == SelectSeq([j \in 1..Len(v.keys) |-> j], LAMBDA j : j # i)
    IN JObj([j \in 1..Len(keep) |-> v.keys[keep[j]]], [j \in 1..Len(keep) |-> v.kids[keep[j]]])

----------------------------------------------------------------------------
(* json.dumps with the default separators ', ' and ': '.                    *)

RECURSIVE Dumps(_), DumpsItems(_, _), DumpsMembers(_, _)

Dumps(v) ==
    CASE v.t = "null" -> <<"null">>
      [] v.t = "num"  -> v.a
      [] v.t = "str"  -> <<"\"">> \o v.a \o <<"\"">>
      [] v.t = "list" -> <<"[">> \o DumpsItems(v.kids, 1) \o <<"]">>
      [] v.t = "obj"  -> <<"{">> \o DumpsMembers(v, 1) \o <<"}">>

DumpsItems(items, i) ==
    IF i > Len(items) THEN <<>>
    ELSE (IF i > 1 THEN <<",", " ">> ELSE <<>>) \o Dumps(items[i]) \o DumpsItems(items, i + 1)

DumpsMembers(v, i) ==
    IF i > Len(v.keys) THEN <<>>
    ELSE (IF i > 1 THEN <<",", " ">> ELSE <<>>)
         \o <<"\"">> \o v.keys[i] \o <<"\"", ":", " ">>
         \o Dumps(v.kids[i]) \o DumpsMembers(v, i + 1)

----------------------------------------------------------------------------
(* The repair: str.replace('{}', 'null'), then                              *)
(* re.sub(r'\{[\'|\"]raw[\'|\"]:(.*?),(.*?)\}', r'\1', text).               *)

\* The least index >= i at which '{}' occurs, 0 when there is none.
FirstEmptyAt(s, i) ==
    IF \E j \in i..(Len(s) - 1) : s[j] = "{" /\ s[j + 1] = "}"
    THEN CHOOSE j \in i..(Len(s) - 1) :
            /\ s[j] = "{" /\ s[j + 1] = "}"
            /\ \A k \in i..(j - 1) : ~(s[k] = "{" /\ s[k + 1] = "}")
    ELSE 0

RECURSIVE ReplaceFrom(_, _)
\* str.replace scans left to right and replaces non-overlapping occurrences.
ReplaceFrom(s, i) ==
    LET j == FirstEmptyAt(s, i)
    IN IF j = 0 THEN SubSeq(s, i, Len(s))
       ELSE SubSeq(s, i, j - 1) \o <<"null">> \o ReplaceFrom(s, j + 2)

ReplaceEmpty(s) == ReplaceFrom(s, 1)

\* The character class [\'|\"] of the pattern.
QuoteClass == {"'", "|", "\""}

\* The least index >= i whose unit is c, 0 when there is none.
FirstAt(s, i, c) ==
    IF \E j \in i..Len(s) : s[j] = c
    THEN CHOOSE j \in i..Len(s) : s[j] = c /\ \A k \in i..(j - 1) : s[k] # c
    ELSE 0

\* The literal prefix  {"raw":  of the pattern at position i.
RawPrefixAt(s, i) ==
    /\ i + 4 <= Len(s)
    /\ s[i] = "{"
    /\ s[i + 1] \in QuoteClass
    /\ s[i + 2] = "raw"
    /\ s[i + 3] \in QuoteClass
    /\ s[i + 4] = ":"

\* The match of the pattern that starts at i, as <<comma, brace>>: both groups
\* are lazy, so group 1 ends at the first comma and group 2 at the first '}'
\* after it; <<0, 0>> when the pattern does not match at i.
RawMatchAt(s, i) ==
    IF ~RawPrefixAt(s, i) THEN <<0, 0>>
    ELSE LET p == FirstAt(s, i + 5, ",")
             q == IF p = 0 THEN 0 ELSE FirstAt(s, p + 1, "}")
         IN IF p = 0 \/ q = 0 THEN <<0, 0>> ELSE <<p, q>>

\* The least index >= i at which the pattern matches, 0 when there is none.
FirstMatchAt(s, i) ==
    IF \E j \in i..Len(s) : RawMatchAt(s, j)[1] # 0
    THEN CHOOSE j \in i..Len(s) :
            RawMatchAt(s, j)[1] # 0 /\ \A k \in i..(j - 1) : RawMatchAt(s, k)[1] = 0
    ELSE 0

RECURSIVE SubFrom(_, _)
\* re.sub: leftmost non-overlapping matches, each replaced by its group 1.
SubFrom(s, i) ==
    LET j == FirstMatchAt(s, i)
    IN IF j = 0 THEN SubSeq(s, i, Len(s))
       ELSE LET m == RawMatchAt(s, j)
            IN SubSeq(s, i, j - 1) \o SubSeq(s, j + 5, m[1] - 1) \o SubFrom(s, m[2] + 1)

ReSub(s) == SubFrom(s, 1)

Repair(s) == ReSub(ReplaceEmpty(s))

----------------------------------------------------------------------------
(* json.loads: a recursive-descent parse of the text.  A result is          *)
(* [ok, v, n]: whether a value was read, the value, and the next position.  *)

ParseFail == [ok |-> FALSE, v |-> JNull, n |-> 0]

RECURSIVE SkipWs(_, _)
SkipWs(s, i) == IF i <= Len(s) /\ s[i] = " " THEN SkipWs(s, i + 1) ELSE i

\* The string literal whose opening quote is at i.
ParseString(s, i) ==
    LET j == FirstAt(s, i + 1, "\"")
    IN IF j = 0 THEN ParseFail
       ELSE [ok |-> TRUE, v |-> JStr(SubSeq(s, i + 1, j - 1)), n |-> j + 1]

RECURSIVE ParseValue(_, _), ParseItems(_, _, _), ParseMembers(_, _, _, _)

ParseValue(s, i0) ==
    LET i == SkipWs(s, i0)
    IN IF i > Len(s) THEN ParseFail
       ELSE CASE s[i] = "{" ->
                     (LET j == SkipWs(s, i + 1)
                      IN IF j <= Len(s) /\ s[j] = "}"
                         THEN [ok |-> TRUE, v |-> JObj(<<>>, <<>>), n |-> j + 1]
                         ELSE ParseMembers(s, j, <<>>, <<>>))
              [] s[i] = "[" ->
                     (LET j == SkipWs(s, i + 1)
                      IN IF j <= Len(s) /\ s[j] = "]"
                         THEN [ok |-> TRUE, v |-> JList(<<>>), n |-> j + 1]
                         ELSE ParseItems(s, j, <<>>))
              [] s[i] = "\"" -> ParseString(s, i)
              [] s[i] = "null" -> [ok |-> TRUE, v |-> JNull, n |-> i + 1]
              [] s[i] \in Digits -> [ok |-> TRUE, v |-> JNum(s[i]), n |-> i + 1]
              [] OTHER -> ParseFail

\* The items of a list, the first of them starting at i.
ParseItems(s, i, items) ==
    LET r == ParseValue(s, i)
    IN IF ~r.ok THEN ParseFail
       ELSE LET j == SkipWs(s, r.n)
            IN IF j > Len(s) THEN ParseFail
               ELSE IF s[j] = "]"
                    THEN [ok |-> TRUE, v |-> JList(Append(items, r.v)), n |-> j + 1]
                    ELSE IF s[j] = ","
                         THEN ParseItems(s, j + 1, Append(items, r.v))
                         ELSE ParseFail

\* The members of an object, the first key's opening quote expected at i.
ParseMembers(s, i, ks, vs) ==
    IF i > Len(s) \/ s[i] # "\"" THEN ParseFail
    ELSE LET k == ParseString(s, i)
         IN IF ~k.ok THEN ParseFail
            ELSE LET c == SkipWs(s, k.n)
                 IN IF c > Len(s) \/ s[c] # ":" THEN ParseFail
                    ELSE LET r == ParseValue(s, c + 1)
                         IN IF ~r.ok THEN ParseFail
                            ELSE LET j == SkipWs(s, r.n)
                                     put == ObjPut(ks, vs, k.v.a, r.v)
                                 IN IF j > Len(s) THEN ParseFail
                                    ELSE IF s[j] = "}"
                                         THEN [ok |-> TRUE, v |-> JObj(put[1], put[2]), n |-> j + 1]
                                         ELSE IF s[j] = ","
                                              THEN ParseMembers(s, SkipWs(s, j + 1), put[1], put[2])
                                              ELSE ParseFail

\* json.loads(s): the whole text must be one value, spaces aside.
Loads(s) ==
    LET r == ParseValue(s, 1)
    IN IF r.ok /\ SkipWs(s, r.n) > Len(s) THEN [ok |-> TRUE, v |-> r.v] ELSE [ok |-> FALSE, v |-> JNull]

----------------------------------------------------------------------------
(* Results of a call.                                                       *)

NoResult == [kind |-> "none", err |-> "", payload |-> "", val |-> PyNone]
Return(v) == [kind |-> "return", err |-> "", payload |-> "", val |-> v]
Raise(e, p) == [kind |-> "raise", err |-> e, payload |-> p, val |-> PyNone]

----------------------------------------------------------------------------
(* The embedded-JSON extraction: _parse_json and _parse_json_series.        *)
(* A page is [marker, parseable, stores]: whether the html holds the        *)
(* 'root.App.main =' marker, whether the text cut out after it is JSON, and *)
(* the names in context.dispatcher.stores; doc is the document stored under *)
(* the requested name.                                                      *)

StoreNames == {"QuoteSummaryStore", "QuoteTimeSeriesStore", "StreamDataStore"}

Pages == [marker : BOOLEAN, parseable : BOOLEAN, stores : SUBSET StoreNames]

\* json.dumps(data).replace(...), re.sub(...), json.loads(...) of one store.
RepairedLoads(d) == Loads(Repair(Dumps(d)))

\* _parse_json(url), after the page has been fetched.
ParseJson(page, d) ==
    IF ~page.marker THEN Raise("IndexError", "")
    ELSE IF ~page.parseable THEN Raise("JSONDecodeError", "")
    ELSE IF "QuoteSummaryStore" \notin page.stores
         THEN Raise("ValueError", "Cannot find QuoteSummaryStore")
         ELSE LET r == RepairedLoads(d)
              IN IF r.ok THEN Return(r.v) ELSE Raise("JSONDecodeError", "")

\* A dict key must be hashable: a list or a dict as key is a TypeError.
Hashable(v) == v.t \in {"str", "num", "null"}

RECURSIVE ListToObjFrom(_, _, _, _)
\* The loop of list_to_obj over the items from i on; [ok, v].
ListToObjFrom(items, i, ks, vs) ==
    IF i > Len(items) THEN [ok |-> TRUE, v |-> JObj(ks, vs)]
    ELSE LET years == items[i]
         IN IF years.t = "null" THEN ListToObjFrom(items, i + 1, ks, vs)
            ELSE IF /\ HasKey(years, <<"asOfDate">>)
                    /\ HasKey(years, <<"reportedValue">>)
                    /\ Hashable(Get(years, <<"asOfDate">>))
                 THEN LET put == ObjPut(ks, vs, Get(years, <<"asOfDate">>).a,
                                        Get(years, <<"reportedValue">>))
                      IN ListToObjFrom(items, i + 1, put[1], put[2])
                 ELSE [ok |-> FALSE, v |-> JNull]

\* list_to_obj(json_obj): len() of None or of a number, indexing a dict or
\* a string's character by 'asOfDate' all raise.
ListToObj(v) ==
    CASE v.t = "list" -> ListToObjFrom(v.kids, 1, <<>>, <<>>)
      [] v.t = "obj" /\ Len(v.keys) = 0 -> [ok |-> TRUE, v |-> JObj(<<>>, <<>>)]
      [] v.t = "str" /\ Len(v.a) = 0 -> [ok |-> TRUE, v |-> JObj(<<>>, <<>>)]
      [] OTHER -> [ok |-> FALSE, v |-> JNull]

\* { k: list_to_obj(json_dict[k]) for k in json_dict.keys() }
SeriesDict(jd) ==
    IF \A i \in 1..Len(jd.kids) : ListToObj(jd.kids[i]).ok
    THEN [ok |-> TRUE, v |-> JObj(jd.keys, [i \in 1..Len(jd.kids) |-> ListToObj(jd.kids[i]).v])]
    ELSE [ok |-> FALSE, v |-> JNull]

\* The body of the try block of _parse_json_series; [ok, v], ok false when
\* any statement of it raises.
SeriesTry(page, d, yearly) ==
    IF ~page.parseable \/ "QuoteTimeSeriesStore" \notin page.stores
    THEN [ok |-> FALSE, v |-> JNull]
    ELSE LET r == RepairedLoads(d)
             name == IF yearly THEN <<"timeSeries">> ELSE <<"timeSeriesQuarterly">>
         IN IF ~r.ok \/ ~HasKey(r.v, name) THEN [ok |-> FALSE, v |-> JNull]
            ELSE LET jd == Get(r.v, name)
                 IN IF ~HasKey(jd, <<"timestamp">>) THEN [ok |-> FALSE, v |-> JNull]
                    ELSE SeriesDict(ObjDel(jd, <<"timestamp">>))

\* _parse_json_series(url, yearly), after the page has been fetched: the
\* split on the marker is outside the try; the bare except prints and the
\* function falls off its end.
ParseJsonSeries(page, d, yearly) ==
    IF ~page.marker THEN Raise("IndexError", "")
    ELSE LET r == SeriesTry(page, d, yearly)
         IN IF r.ok THEN Return(r.v) ELSE Return(PyNone)

----------------------------------------------------------------------------
(* The store documents the extraction is run on: every nesting of objects   *)
(* and lists up to MaxDepth levels with at most MaxWidth members each, and  *)
(* a family of time-series stores.                                          *)

MaxDepth == 2
MaxWidth == 2

Scalars == {JNum("1"), JStr(<<"s">>)}
Keys == {<<"raw">>, <<"fmt">>}

KeySeqs(n) == {ks \in [1..n -> Keys] : \A i, j \in 1..n : i # j => ks[i] # ks[j]}

ObjsOver(D) == UNION {{JObj(ks, vs) : ks \in KeySeqs(n), vs \in [1..n -> D]} : n \in 0..MaxWidth}

ListsOver(D) == UNION {{JList(vs) : vs \in [1..n -> D]} : n \in 0..MaxWidth}

RECURSIVE Level(_)
Level(d) == IF d = 0 THEN Scalars
            ELSE LET D == Level(d - 1) IN Scalars \cup ObjsOver(D) \cup ListsOver(D)

RawFmt(w) == JObj(<< <<"raw">>, <<"fmt">> >>, <<JNum(w), JStr(<<"s">>)>>)

SeriesEntry(date, value) ==
    JObj(<< <<"asOfDate">>, <<"reportedValue">> >>, <<JStr(<<date>>), value>>)

SeriesItems == {JNull, JObj(<<>>, <<>>), SeriesEntry("d1", RawFmt("1")),
                SeriesEntry("d2", RawFmt("2")), SeriesEntry("d1", JNum("3")),
                JObj(<< <<"asOfDate">> >>, <<JStr(<<"d1">>)>>)}

SeriesLists == UNION {{JList(vs) : vs \in [1..n -> SeriesItems]} : n \in 0..MaxWidth}

SeriesTrees ==
    {JObj(<< <<"timestamp">>, <<"annualEbitda">> >>, <<JList(<<JNum("1")>>), l>>) : l \in SeriesLists}
    \cup {JObj(<< <<"annualEbitda">> >>, <<l>>) : l \in SeriesLists}

SeriesDocs ==
    {JObj(<< <<"timeSeries">>, <<"timeSeriesQuarterly">> >>, <<y, q>>) :
        y \in SeriesTrees, q \in {JObj(<< <<"timestamp">> >>, <<JList(<<>>)>>)}}
    \cup {JObj(<< <<"timeSeries">> >>, <<y>>) : y \in SeriesTrees}

----------------------------------------------------------------------------
(* The extraction as operations: one call of _parse_json or of              *)
(* _parse_json_series on a page that embeds doc.                            *)

InitJson ==
    /\ op = "idle" /\ pc = "idle"
    /\ args = <<>>
    /\ requests = <<>>
    /\ resp = <<>>
    /\ result = NoResult
    /\ doc \in Level(MaxDepth) \cup SeriesDocs
    /\ earn = <<>>
    /\ num = <<>>
    /\ clock = 0
    /\ built = <<>>

Call_parse_json ==
    /\ op = "idle"
    /\ \E page \in Pages :
          /\ op' = "_parse_json"
          /\ args' = <<>>
          /\ resp' = page
          /\ requests' = Append(requests, "page")
          /\ result' = ParseJson(page, doc)
    /\ pc' = "done"
    /\ UNCHANGED <<doc, earn, num, clock, built>>

Call_parse_json_series ==
    /\ op = "idle"
    /\ \E page \in Pages, yearly \in BOOLEAN :
          /\ op' = "_parse_json_series"
          /\ args' = [yearly |-> yearly]
          /\ resp' = page
          /\ requests' = Append(requests, "page")
          /\ result' = ParseJsonSeries(page, doc, yearly)
    /\ pc' = "done"
    /\ UNCHANGED <<doc, earn, num, clock, built>>

NextJson == Call_parse_json \/ Call_parse_json_series

SpecJson == InitJson /\ [][NextJson]_vars

----------------------------------------------------------------------------
(* The Endpoint Builder and the Statement Flattener.                        *)

DefaultStart == 7223400
DaySeconds == 86400

\* str.upper and str.lower, letter by letter.
UpperChar(c) == CASE c = "a" -> "A" [] c = "b" -> "B" [] c = "d" -> "D" [] OTHER -> c
LowerChar(c) == CASE c = "A" -> "a" [] c = "B" -> "b" [] c = "D" -> "d" [] OTHER -> c
Upper(s) == [i \in 1..Len(s) |-> UpperChar(s[i])]
Lower(s) == [i \in 1..Len(s) |-> LowerChar(s[i])]

\* A date argument is [given, secs]: None, or an instant in Unix seconds.
NoDate == [given |-> FALSE, secs |-> 0]
Date(t) == [given |-> TRUE, secs |-> t]

\* A build_url whose default start is counted back from the current time.
build_url_relative(ticker, start_date, end_date, interval, now) ==
    [site |-> <<"chart">> \o ticker,
     params |-> [period1 |-> IF start_date.given THEN start_date.secs ELSE now - DefaultStart,
                 period2 |-> IF end_date.given THEN end_date.secs ELSE now,
                 interval |-> Lower(interval),
                 events |-> "div,splits"]]

\* build_url(ticker, start_date, end_date, interval) at the instant now.
build_url(ticker, start_date, end_date, interval, now) ==
    [site |-> <<"chart">> \o ticker,
     params |-> [period1 |-> IF start_date.given THEN start_date.secs ELSE DefaultStart,
                 period2 |-> IF end_date.given THEN end_date.secs ELSE now,
                 interval |-> Lower(interval),
                 events |-> "div,splits"]]

JNaN == [t |-> "NaN", a |-> <<>>, keys |-> <<>>, kids |-> <<>>]

RECURSIVE UnionKeys(_, _, _)
\* The columns of pd.DataFrame(records): the keys in order of first appearance.
UnionKeys(records, i, ks) ==
    IF i > Len(records) THEN ks
    ELSE LET new == SelectSeq(records[i].keys, LAMBDA k : IndexOf(ks, k) = 0)
         IN UnionKeys(records, i + 1, ks \o new)

Cell(record, k) == IF HasKey(record, k) THEN Get(record, k) ELSE JNaN

EmptyTable == [empty |-> TRUE, name |-> "", rows |-> <<>>, columns |-> <<>>, cells |-> <<>>]

\* The number a digit token spells.
NumValue(v) == CASE v.a = <<"0">> -> 0 [] v.a = <<"1">> -> 1 [] v.a = <<"2">> -> 2 [] OTHER -> 3

\* pd.to_datetime(x, unit="s"): the instant x seconds after the epoch; a
\* missing value (None, NaN) gives NaT.
ToDatetime(v) ==
    IF v.t = "num" THEN [nat |-> FALSE, secs |-> NumValue(v)] ELSE [nat |-> TRUE, secs |-> 0]

\* df.empty of pd.DataFrame(records): no row or no column.
IsEmptyFrame(records) == Len(records) = 0 \/ Len(UnionKeys(records, 1, <<>>)) = 0

\* The flattening without the drop of 'maxAge'.
Flatten_keepmaxage(records) ==
    LET cols == UnionKeys(records, 1, <<>>)
        items == SelectSeq(cols, LAMBDA k : k # <<"endDate">>)
        dates == [i \in 1..Len(records) |-> Cell(records[i], <<"endDate">>)]
    IN IF IndexOf(cols, <<"endDate">>) = 0
       THEN [ok |-> FALSE, err |-> "KeyError", table |-> EmptyTable]
       ELSE [ok |-> TRUE, err |-> "",
             table |-> [empty |-> FALSE, name |-> "Breakdown", rows |-> items,
                        columns |-> [c \in 1..Len(dates) |-> ToDatetime(dates[c])],
                        cells |-> [r \in 1..Len(items) |->
                                     [c \in 1..Len(records) |-> Cell(records[c], items[r])]]]]

\* Lines 420-428: del df["maxAge"], set_index("endDate"), to_datetime,
\* transpose, index name; [ok, err, table].
Flatten(records) ==
    LET cols == UnionKeys(records, 1, <<>>)
        items == SelectSeq(cols, LAMBDA k : k # <<"maxAge">> /\ k # <<"endDate">>)
        dates == [i \in 1..Len(records) |-> Cell(records[i], <<"endDate">>)]
    IN IF IndexOf(cols, <<"maxAge">>) = 0 \/ IndexOf(cols, <<"endDate">>) = 0
       THEN [ok |-> FALSE, err |-> "KeyError", table |-> EmptyTable]
       ELSE IF \E i \in 1..Len(dates) : dates[i].t \notin {"num", "null", "NaN"}
       THEN [ok |-> FALSE, err |-> "ValueError", table |-> EmptyTable]
       ELSE [ok |-> TRUE, err |-> "",
             table |-> [empty |-> FALSE, name |-> "Breakdown", rows |-> items,
                        columns |-> [c \in 1..Len(dates) |-> ToDatetime(dates[c])],
                        cells |-> [r \in 1..Len(items) |->
                                     [c \in 1..Len(records) |-> Cell(records[c], items[r])]]]]

\* _parse_table without the df.empty guard of lines 417-418.
_parse_table_unguarded(json_info) ==
    IF json_info.t = "null" THEN Flatten(<<>>)
    ELSE IF json_info.t # "list" THEN [ok |-> FALSE, err |-> "ValueError", table |-> EmptyTable]
    ELSE IF \E i \in 1..Len(json_info.kids) : json_info.kids[i].t # "obj"
    THEN [ok |-> FALSE, err |-> "KeyError", table |-> EmptyTable]
    ELSE Flatten(json_info.kids)

\* _parse_table(json_info): [ok, err, table].  pd.DataFrame(None) is the
\* empty frame; a scalar or a dict of scalars is refused by the constructor.
_parse_table(json_info) ==
    IF json_info.t = "null" THEN [ok |-> TRUE, err |-> "", table |-> EmptyTable]
    ELSE IF json_info.t # "list" THEN [ok |-> FALSE, err |-> "ValueError", table |-> EmptyTable]
    ELSE IF \E i \in 1..Len(json_info.kids) : json_info.kids[i].t # "obj"
    THEN [ok |-> FALSE, err |-> "KeyError", table |-> EmptyTable]
    ELSE IF IsEmptyFrame(json_info.kids)
    THEN [ok |-> TRUE, err |-> "", table |-> EmptyTable]
    ELSE Flatten(json_info.kids)

\* The Period Record sequences the flattener is run on: up to MaxRecords
\* records, complete or lacking 'maxAge', 'endDate' or every key, in any
\* order of end dates.
MaxRecords == 2

EndDateValues == {JNum("1"), JNum("2"), JNum("3")}

PeriodRecords ==
    {JObj(<< <<"maxAge">>, <<"endDate">>, <<"netIncome">> >>, <<JNum("1"), e, v>>) :
        e \in EndDateValues, v \in {JNum("2"), JNull}}
    \cup {JObj(<< <<"endDate">>, <<"totalRevenue">>, <<"maxAge">> >>, <<e, JNum("3"), JNum("1")>>) :
            e \in EndDateValues}
    \cup {JObj(<< <<"endDate">>, <<"netIncome">> >>, <<JNum("1"), JNum("2")>>),
          JObj(<< <<"maxAge">>, <<"netIncome">> >>, <<JNum("1"), JNum("2")>>),
          JObj(<<>>, <<>>)}

TableInputs == UNION {{JList(rs) : rs \in [1..n -> PeriodRecords]} : n \in 0..MaxRecords}

InitTable ==
    /\ op = "idle" /\ pc = "idle"
    /\ args = <<>>
    /\ requests = <<>>
    /\ resp = <<>>
    /\ result = NoResult
    /\ doc \in TableInputs
    /\ earn = <<>>
    /\ num = <<>>
    /\ clock = 0
    /\ built = <<>>

Call_parse_table ==
    /\ op = "idle"
    /\ op' = "_parse_table"
    /\ pc' = "done"
    /\ LET r == _parse_table(doc)
       IN result' = IF r.ok THEN Return(r.table) ELSE Raise(r.err, "")
    /\ UNCHANGED <<args, requests, resp, doc, earn, num, clock, built>>

NextTable == Call_parse_table

SpecTable == InitTable /\ [][NextTable]_vars

\* The call of _parse_table has finished.
Flattened == op = "_parse_table" /\ pc = "done"

\* C13: in every non-empty table _parse_table returns the end-date columns
\* are in descending date order, whatever the order of the input records.
C13_ColumnsDescending ==
    (Flattened /\ result.kind = "return" /\ ~result.val.empty) =>
        \A i, j \in 1..Len(result.val.columns) :
            (i < j /\ ~result.val.columns[i].nat /\ ~result.val.columns[j].nat) =>
                result.val.columns[i].secs >= result.val.columns[j].secs

\* C14: flattening an empty Period Record sequence returns an empty table and
\* never raises; none of the column operations took place (no row, no column,
\* no 'Breakdown' index name).
C14_EmptyInputEmptyTable ==
    (Flattened /\ doc = JList(<<>>)) =>
        /\ result.kind = "return"
        /\ result.val.empty
        /\ result.val.rows = <<>> /\ result.val.columns = <<>> /\ result.val.name # "Breakdown"

C14_Witness == Flattened /\ doc = JList(<<>>) /\ result = Return(EmptyTable)

\* Every record of the flattened sequence carries 'endDate' and 'maxAge'.
AllComplete ==
    /\ Len(doc.kids) > 0
    /\ \A c \in 1..Len(doc.kids) :
          HasKey(doc.kids[c], <<"endDate">>) /\ HasKey(doc.kids[c], <<"maxAge">>)

\* C19: for a non-empty sequence of records that each carry 'endDate' and
\* 'maxAge', _parse_table returns the transpose: one column per record, in
\* the records' order, labelled by the instant of the record's end date; one
\* row per line-item name of any record and none for 'maxAge' or 'endDate';
\* the cell at (item, record) is the record's value for the item; the row
\* index is named 'Breakdown'.
C19_Transpose ==
    (Flattened /\ AllComplete) =>
        /\ result.kind = "return"
        /\ LET t == result.val
               records == doc.kids
           IN /\ t.name = "Breakdown"
              /\ Len(t.columns) = Len(records)
              /\ \A c \in 1..Len(records) :
                    /\ ~t.columns[c].nat
                    /\ t.columns[c].secs = NumValue(Get(records[c], <<"endDate">>))
              /\ \A r1, r2 \in 1..Len(t.rows) : r1 # r2 => t.rows[r1] # t.rows[r2]
              /\ {t.rows[r] : r \in 1..Len(t.rows)} =
                    UNION {{records[c].keys[k] : k \in 1..Len(records[c].keys)} : c \in 1..Len(records)}
                    \ {<<"maxAge">>, <<"endDate">>}
              /\ \A r \in 1..Len(t.rows), c \in 1..Len(records) :
                    HasKey(records[c], t.rows[r]) => t.cells[r][c] = Get(records[c], t.rows[r])

C19_Witness ==
    /\ Flattened /\ AllComplete /\ result.kind = "return"
    /\ Len(doc.kids) = 2 /\ Len(result.val.rows) = 2
    /\ result.val.columns[1].secs < result.val.columns[2].secs

----------------------------------------------------------------------------
(* The chart/quote fetchers: get_data, get_dividends, get_splits,           *)
(* get_quote_data, and get_financials.  A response is [ok, body, events,    *)
(* timestamp]: the HTTP status, the body ("notjson" when resp.json() would  *)
(* raise, else the name of the JSON payload), and, of a chart payload, the  *)
(* keys of chart.result[0].events and the upstream timestamps; quote is the *)
(* keys of indicators.quote[0] in upstream order.                           *)

Tickers == {<<"a">>, <<"A", "b">>}
Intervals == {<<"1", "d">>, <<"1", "w", "k">>, <<"1", "m", "o">>, <<"1", "m">>,
              <<"1", "D">>, <<"5", "m">>}
ValidIntervals == {<<"1", "d">>, <<"1", "w", "k">>, <<"1", "m", "o">>, <<"1", "m">>}
Clock == {3 * DaySeconds}
StartDates == {NoDate, Date(DaySeconds)}
EndDates == {NoDate, Date(2 * DaySeconds)}

EventShapes == {[present |-> FALSE, keys |-> {}]}
               \cup {[present |-> TRUE, keys |-> k] : k \in SUBSET {"dividends", "splits"}}
TimestampLists == {<<>>, <<2 * DaySeconds, DaySeconds + 1>>}
Bodies == {"notjson", "bodyA", "bodyB"}
QuoteColumns == {<<"open", "high", "low", "close", "volume">>,
                 <<"volume", "close", "open", "low", "high">>,
                 <<"open", "high", "low", "close">>}
Responses == [ok : BOOLEAN, body : Bodies, events : EventShapes, timestamp : TimestampLists,
              quote : QuoteColumns]

\* The index left as the upstream delivers it.
DayFloor_none(t) == t

\* dt.floor("d")
DayFloor(t) == t - (t % DaySeconds)

----------------------------------------------------------------------------
(* The results of the fetchers, from the arguments and the response.        *)

Frame(index, columns, ticker) ==
    [index |-> index, columns |-> columns, ticker |-> ticker, date |-> <<>>]

EmptyDataFrame == Frame(<<>>, <<>>, <<>>)

\* frame.reset_index() and the rename of "index" to "date".
ResetIndex(f) ==
    [index |-> [i \in 1..Len(f.index) |-> i - 1], columns |-> <<"date">> \o f.columns,
     ticker |-> f.ticker, date |-> f.index]

Shaped(f, index_as_date) == IF index_as_date THEN f ELSE ResetIndex(f)

Floored(ts) == [i \in 1..Len(ts) |-> DayFloor(ts[i])]

\* get_data that treats a failed response as "no data", as get_dividends does.
get_data_lenient(a, r) ==
    IF ~r.ok THEN Return(EmptyDataFrame)
    ELSE IF r.body = "notjson" THEN Raise("JSONDecodeError", "")
    ELSE Return(Shaped(Frame(Floored(r.timestamp),
                             <<"open", "high", "low", "close", "adjclose", "volume", "ticker">>,
                             Upper(a.ticker)), a.index_as_date))

\* frame[[...]]: the columns named, in the order named; a name the frame
\* lacks is a KeyError.
HasColumns(columns, wanted) == \A i \in 1..Len(wanted) : IndexOf(columns, wanted[i]) > 0

\* The frame of get_data: lines 98-117.
PriceFrame(a, r, index, columns, wanted) ==
    IF HasColumns(columns, wanted)
    THEN Return(Shaped(Frame(index, Append(wanted, "ticker"), Upper(a.ticker)), a.index_as_date))
    ELSE Raise("KeyError", "")

\* get_data that appends the ticker as it was given.
get_data_rawticker(a, r) ==
    IF r.body = "notjson" THEN Raise("JSONDecodeError", "")
    ELSE IF ~r.ok THEN Raise("AssertionError", r.body)
    ELSE IF ~HasColumns(r.quote, <<"open", "high", "low", "close", "volume">>)
         THEN Raise("KeyError", "")
         ELSE Return(Shaped(Frame(IF a.interval # <<"1", "m">> THEN Floored(r.timestamp)
                                  ELSE r.timestamp,
                                  IF a.interval # <<"1", "m">>
                                  THEN <<"open", "high", "low", "close", "adjclose", "volume", "ticker">>
                                  ELSE <<"open", "high", "low", "close", "volume", "ticker">>,
                                  a.ticker), a.index_as_date))

\* get_data after a valid interval: lines 86-123.
get_data(a, r) ==
    IF r.body = "notjson" THEN Raise("JSONDecodeError", "")
    ELSE IF ~r.ok THEN Raise("AssertionError", r.body)
    ELSE IF a.interval # <<"1", "m">>
         THEN PriceFrame(a, r, Floored(r.timestamp), Append(r.quote, "adjclose"),
                         <<"open", "high", "low", "close", "adjclose", "volume">>)
         ELSE PriceFrame(a, r, r.timestamp, r.quote,
                         <<"open", "high", "low", "close", "volume">>)

\* The frame of an events mapping keyed by the timestamps ts: transposed,
\* day-floored, sorted; dropping the 'date' column of an empty mapping raises.
EventsFrame(a, ts, column) ==
    IF Len(ts) = 0 THEN Raise("KeyError", "date")
    ELSE Return(Shaped(Frame(SortSeq(Floored(ts), LAMBDA x, y : x < y),
                             <<column, "ticker">>, Upper(a.ticker)), a.index_as_date))

\* get_dividends: lines 838-873.
get_dividends(a, r) ==
    IF ~r.ok THEN Return(EmptyDataFrame)
    ELSE IF r.body = "notjson" THEN Raise("JSONDecodeError", "")
    ELSE IF ~r.events.present \/ "dividends" \notin r.events.keys THEN Return(EmptyDataFrame)
    ELSE EventsFrame(a, r.timestamp, "dividend")

\* get_splits with the absence convention of get_dividends.
get_splits_unified(a, r) ==
    IF r.body = "notjson" THEN Raise("JSONDecodeError", "")
    ELSE IF ~r.ok THEN Raise("AssertionError", r.body)
    ELSE IF ~r.events.present \/ "splits" \notin r.events.keys THEN Return(EmptyDataFrame)
    ELSE EventsFrame(a, r.timestamp, "splitRatio")

\* get_splits: lines 891-925.
get_splits(a, r) ==
    IF r.body = "notjson" THEN Raise("JSONDecodeError", "")
    ELSE IF ~r.ok THEN Raise("AssertionError", r.body)
    ELSE IF ~r.events.present THEN Raise("KeyError", "events")
    ELSE IF "splits" \notin r.events.keys
         THEN Raise("AssertionError", "There is no data available on stock splits, or none have occured")
         ELSE EventsFrame(a, r.timestamp, "splitRatio")

QuoteResponses == [ok : BOOLEAN, body : Bodies, found : BOOLEAN]

\* get_quote_data: lines 1117-1132.
get_quote_data(a, r) ==
    IF ~r.ok THEN Raise("AssertionError", "Invalid response from server.  Check if ticker is valid.")
    ELSE IF r.body = "notjson" THEN Raise("JSONDecodeError", "")
    ELSE IF ~r.found THEN Raise("IndexError", "")
    ELSE Return([quote |-> r.body])

\* The statements get_financials reads, in order: result name, outer key,
\* inner key.
Statements(yearly, quarterly) ==
    (IF yearly
     THEN << <<"yearly_income_statement", <<"incomeStatementHistory">>, <<"incomeStatementHistory">> >>,
             <<"yearly_balance_sheet", <<"balanceSheetHistory">>, <<"balanceSheetStatements">> >>,
             <<"yearly_cash_flow", <<"cashflowStatementHistory">>, <<"cashflowStatements">> >> >>
     ELSE <<>>)
    \o
    (IF quarterly
     THEN << <<"quarterly_income_statement", <<"incomeStatementHistoryQuarterly">>, <<"incomeStatementHistory">> >>,
             <<"quarterly_balance_sheet", <<"balanceSheetHistoryQuarterly">>, <<"balanceSheetStatements">> >>,
             <<"quarterly_cash_flow", <<"cashflowStatementHistoryQuarterly">>, <<"cashflowStatements">> >> >>
     ELSE <<>>)

\* json_info[outer][inner] followed by _parse_table: [ok, err, table].
StatementTable(json_info, st) ==
    IF ~HasKey(json_info, st[2]) \/ ~HasKey(Get(json_info, st[2]), st[3])
    THEN [ok |-> FALSE, err |-> "KeyError", table |-> EmptyTable]
    ELSE _parse_table(Get(Get(json_info, st[2]), st[3]))

\* get_financials after the argument check: lines 653-690; parsed is the
\* outcome of _parse_json.
get_financials(a, parsed) ==
    IF parsed.kind = "raise" THEN parsed
    ELSE LET sts == Statements(a.yearly, a.quarterly)
             tabs == [i \in 1..Len(sts) |-> StatementTable(parsed.val, sts[i])]
         IN IF \E i \in 1..Len(sts) : ~tabs[i].ok
            THEN Raise(tabs[CHOOSE i \in 1..Len(sts) :
                               ~tabs[i].ok /\ \A j \in 1..(i - 1) : tabs[j].ok].err, "")
            ELSE Return([names |-> [i \in 1..Len(sts) |-> sts[i][1]],
                         tables |-> [i \in 1..Len(sts) |-> tabs[i].table]])

\* An interval check that ignores case, as build_url's interval.lower() does.
ValidInterval_anycase(interval) == Lower(interval) \in ValidIntervals

\* The interval check of get_data (line 81).
ValidInterval(interval) == interval \in ValidIntervals

\* The argument check of get_financials (line 650).
ValidPeriods(yearly, quarterly) == yearly \/ quarterly

----------------------------------------------------------------------------
(* The financial-statement stores get_financials is run on.                 *)

Period(end, value) ==
    JObj(<< <<"maxAge">>, <<"endDate">>, <<"netIncome">> >>, <<JNum("1"), RawFmt(end), RawFmt(value)>>)

StatementLists == {<<>>, <<Period("2", "1")>>, <<Period("2", "1"), Period("3", "2")>>,
                   <<Period("3", "1"), Period("2", "2")>>,
                   <<JObj(<< <<"endDate">> >>, <<RawFmt("2")>>)>>}

Statement(inner, l) == JObj(<<inner>>, <<JList(l)>>)

YearlyKeys == << <<"incomeStatementHistory">>, <<"balanceSheetHistory">>, <<"cashflowStatementHistory">> >>
QuarterlyKeys == << <<"incomeStatementHistoryQuarterly">>, <<"balanceSheetHistoryQuarterly">>,
                    <<"cashflowStatementHistoryQuarterly">> >>

StatementsOf(l) == <<Statement(<<"incomeStatementHistory">>, l),
                     Statement(<<"balanceSheetStatements">>, l),
                     Statement(<<"cashflowStatements">>, l)>>

FinDocs == {JObj(YearlyKeys \o QuarterlyKeys, StatementsOf(l) \o StatementsOf(l)) : l \in StatementLists}
           \cup {JObj(YearlyKeys, StatementsOf(l)) : l \in StatementLists}

----------------------------------------------------------------------------
(* The fetchers as operations.  get_data and get_financials check their     *)
(* arguments on entry and request afterwards; the others request at once.   *)

InitChart ==
    /\ op = "idle" /\ pc = "idle"
    /\ args = <<>>
    /\ requests = <<>>
    /\ resp = <<>>
    /\ result = NoResult
    /\ doc = JNull
    /\ earn = <<>>
    /\ num = <<>>
    /\ clock = 0
    /\ built = <<>>

ChartArgs == [ticker : Tickers, start_date : StartDates, end_date : EndDates,
              index_as_date : BOOLEAN]

GetData_Validate ==
    /\ op = "idle"
    /\ \E a \in ChartArgs, interval \in Intervals :
          /\ op' = "get_data"
          /\ args' = [ticker |-> a.ticker, start_date |-> a.start_date, end_date |-> a.end_date,
                      index_as_date |-> a.index_as_date, interval |-> interval]
          /\ IF ValidInterval(interval)
             THEN pc' = "request" /\ result' = result
             ELSE /\ pc' = "done"
                  /\ result' = Raise("AssertionError", "interval must be of of '1d', '1wk', '1mo', or '1m'")
    /\ UNCHANGED <<requests, resp, doc, earn, num, clock, built>>

GetData_Fetch ==
    /\ op = "get_data" /\ pc = "request"
    /\ \E r \in Responses, now \in Clock :
          /\ requests' = Append(requests, build_url(args.ticker, args.start_date, args.end_date,
                                                    args.interval, now))
          /\ resp' = r
          /\ result' = get_data(args, r)
    /\ pc' = "done"
    /\ UNCHANGED <<op, args, doc, earn, num, clock, built>>

GetDividends ==
    /\ op = "idle"
    /\ \E a \in ChartArgs, r \in Responses, now \in Clock :
          /\ op' = "get_dividends"
          /\ args' = a
          /\ requests' = Append(requests, build_url(a.ticker, a.start_date, a.end_date, <<"1", "d">>, now))
          /\ resp' = r
          /\ result' = get_dividends(a, r)
    /\ pc' = "done"
    /\ UNCHANGED <<doc, earn, num, clock, built>>

GetSplits ==
    /\ op = "idle"
    /\ \E a \in ChartArgs, r \in Responses, now \in Clock :
          /\ op' = "get_splits"
          /\ args' = a
          /\ requests' = Append(requests, build_url(a.ticker, a.start_date, a.end_date, <<"1", "d">>, now))
          /\ resp' = r
          /\ result' = get_splits(a, r)
    /\ pc' = "done"
    /\ UNCHANGED <<doc, earn, num, clock, built>>

GetQuoteData ==
    /\ op = "idle"
    /\ \E t \in Tickers, r \in QuoteResponses :
          /\ op' = "get_quote_data"
          /\ args' = [ticker |-> t]
          /\ requests' = Append(requests, [site |-> <<"quote">> \o t, params |-> <<>>])
          /\ resp' = r
          /\ result' = get_quote_data(args', r)
    /\ pc' = "done"
    /\ UNCHANGED <<doc, earn, num, clock, built>>

GetFinancials_Validate ==
    /\ op = "idle"
    /\ \E t \in Tickers, yearly \in BOOLEAN, quarterly \in BOOLEAN :
          /\ op' = "get_financials"
          /\ args' = [ticker |-> t, yearly |-> yearly, quarterly |-> quarterly]
          /\ IF ValidPeriods(yearly, quarterly)
             THEN pc' = "request" /\ result' = result
             ELSE /\ pc' = "done"
                  /\ result' = Raise("AssertionError", "yearly or quarterly must be True")
    /\ UNCHANGED <<requests, resp, doc, earn, num, clock, built>>

GetFinancials_Fetch ==
    /\ op = "get_financials" /\ pc = "request"
    /\ \E page \in Pages, d \in FinDocs :
          /\ requests' = Append(requests, [site |-> <<"financials">> \o args.ticker, params |-> <<>>])
          /\ resp' = page
          /\ doc' = d
          /\ result' = get_financials(args, ParseJson(page, d))
    /\ pc' = "done"
    /\ UNCHANGED <<op, args, earn, num, clock, built>>

NextChart ==
    \/ GetData_Validate \/ GetData_Fetch
    \/ GetDividends \/ GetSplits \/ GetQuoteData
    \/ GetFinancials_Validate \/ GetFinancials_Fetch

SpecChart == InitChart /\ [][NextChart]_vars

----------------------------------------------------------------------------
(* Claims about the fetchers.                                               *)

ChartOps == {"get_data", "get_dividends", "get_splits", "get_quote_data"}

\* The finished call issued its request and received resp.
Fetched == op \in ChartOps /\ pc = "done" /\ requests # <<>>

\* A successful chart response: HTTP success with a JSON body.
Successful == resp.ok /\ resp.body # "notjson"

\* C1: on a successful chart response get_dividends returns an empty table,
\* without raising, when chart.result[0] has no 'events' or its 'events' has
\* no 'dividends'; get_splits raises and returns no table when 'events' has
\* no 'splits'.
C1_AbsenceAsymmetry ==
    /\ (/\ Fetched /\ op = "get_dividends" /\ Successful
        /\ (~resp.events.present \/ "dividends" \notin resp.events.keys))
       => result = Return(EmptyDataFrame)
    /\ (Fetched /\ op = "get_splits" /\ Successful /\ "splits" \notin resp.events.keys)
       => result.kind = "raise"

C1_Witness ==
    /\ Fetched /\ op = "get_splits" /\ Successful
    /\ resp.events.present /\ resp.events.keys = {"dividends"}
    /\ result.kind = "raise" /\ result.err = "AssertionError"

C3_ArgumentFailureBeforeRequest ==
    /\ (/\ op = "get_data"
        /\ args.interval \notin {<<"1", "d">>, <<"1", "w", "k">>, <<"1", "m", "o">>, <<"1", "m">>})
       => (pc = "done" /\ result.kind = "raise" /\ result.err = "AssertionError" /\ requests = <<>>)
    /\ (op = "get_financials" /\ ~args.yearly /\ ~args.quarterly)
       => (pc = "done" /\ result.kind = "raise" /\ result.err = "AssertionError" /\ requests = <<>>)

C3_Witness ==
    /\ op = "get_data" /\ args.interval = <<"1", "D">> /\ pc = "done"
    /\ result.kind = "raise" /\ requests = <<>>

\* The timestamps of a returned table: its index, or its 'date' column after
\* reset_index.
TableDates == IF args.index_as_date THEN result.val.index ELSE result.val.date

\* d is the day of the instant t: a whole day, at most t, less than a day
\* before it.
DayOf(d, t) == d % 86400 = 0 /\ d <= t /\ t < d + 86400

\* C11: every timestamp of a table returned by get_data at 1d, 1wk or 1mo, and
\* by get_dividends and get_splits, is a whole multiple of 86400 seconds, the
\* day of an upstream timestamp (of the same row in get_data); at 1m the
\* timestamps are the upstream ones unchanged.
C11_DayFloor ==
    (Fetched /\ result.kind = "return" /\ result.val # EmptyDataFrame
        /\ op \in {"get_data", "get_dividends", "get_splits"}) =>
        /\ Len(TableDates) = Len(resp.timestamp)
        /\ (op = "get_data" /\ args.interval = <<"1", "m">>) => TableDates = resp.timestamp
        /\ (op = "get_data" /\ args.interval # <<"1", "m">>) =>
              \A i \in 1..Len(TableDates) : DayOf(TableDates[i], resp.timestamp[i])
        /\ op \in {"get_dividends", "get_splits"} =>
              /\ \A i \in 1..Len(TableDates) :
                    \E j \in 1..Len(resp.timestamp) : DayOf(TableDates[i], resp.timestamp[j])
              /\ \A j \in 1..Len(resp.timestamp) :
                    \E i \in 1..Len(TableDates) : DayOf(TableDates[i], resp.timestamp[j])

C11_Witness ==
    /\ Fetched /\ op = "get_dividends" /\ result.kind = "return"
    /\ \E j \in 1..Len(resp.timestamp) : resp.timestamp[j] % 86400 # 0
    /\ Len(TableDates) = 2

\* C12 as stated: every successful get_data call returns the columns open,
\* high, low, close, adjclose, volume, ticker in this order (without adjclose
\* at 1m), and the ticker value is the upper-cased input ticker.
C12_ColumnOrder ==
    (Fetched /\ op = "get_data" /\ result.kind = "return") =>
        /\ result.val.columns =
              IF args.interval # <<"1", "m">>
              THEN <<"open", "high", "low", "close", "adjclose", "volume", "ticker">>
              ELSE <<"open", "high", "low", "close", "volume", "ticker">>
        /\ Len(result.val.ticker) = Len(args.ticker)
        /\ \A i \in 1..Len(args.ticker) :
              result.val.ticker[i] \in {"A", "B", "D"} /\ LowerChar(result.val.ticker[i]) = LowerChar(args.ticker[i])

\* C12 amended: the columns are in that order when index_as_date is true;
\* when it is false the same columns follow a leading 'date' column; the
\* ticker value is the upper-cased input ticker in both cases.
C12_ColumnOrderAfterDate ==
    (Fetched /\ op = "get_data" /\ result.kind = "return") =>
        /\ result.val.columns =
              (IF args.index_as_date THEN <<>> ELSE <<"date">>)
              \o (IF args.interval # <<"1", "m">>
                  THEN <<"open", "high", "low", "close", "adjclose", "volume", "ticker">>
                  ELSE <<"open", "high", "low", "close", "volume", "ticker">>)
        /\ Len(result.val.ticker) = Len(args.ticker)
        /\ \A i \in 1..Len(args.ticker) :
              result.val.ticker[i] \in {"A", "B", "D"} /\ LowerChar(result.val.ticker[i]) = LowerChar(args.ticker[i])

C12_Witness ==
    /\ Fetched /\ op = "get_data" /\ result.kind = "return"
    /\ args.ticker = <<"a">> /\ result.val.ticker = <<"A">>
    /\ resp.quote[1] = "volume" /\ ~args.index_as_date
    /\ args.interval = <<"1", "d">>

----------------------------------------------------------------------------
(* The Endpoint Builder called again and again while time passes.  Each     *)
(* call is logged in built with its arguments, the time of the call and     *)
(* what it returned.                                                        *)

MaxCalls == 2
MaxTicks == 2

UrlIntervals == {<<"1", "d">>, <<"1", "D">>}

InitUrl ==
    /\ op = "idle" /\ pc = "idle"
    /\ args = <<>>
    /\ requests = <<>>
    /\ resp = <<>>
    /\ result = NoResult
    /\ doc = JNull
    /\ earn = <<>>
    /\ num = <<>>
    /\ clock = 0
    /\ built = <<>>

\* Time passes.
Tick ==
    /\ clock < MaxTicks * DaySeconds
    /\ clock' = clock + DaySeconds
    /\ UNCHANGED <<op, pc, args, requests, resp, result, doc, earn, num, built>>

Call_build_url ==
    /\ Len(built) < MaxCalls
    /\ \E ticker \in Tickers, start_date \in StartDates, end_date \in EndDates,
          interval \in UrlIntervals :
          LET a == [ticker |-> ticker, start_date |-> start_date, end_date |-> end_date,
                    interval |-> interval]
              out == build_url(ticker, start_date, end_date, interval, clock)
          IN /\ args' = a
             /\ result' = Return(out)
             /\ built' = Append(built, [args |-> a, now |-> clock, out |-> out])
    /\ op' = "build_url"
    /\ pc' = "done"
    /\ UNCHANGED <<requests, resp, doc, earn, num, clock>>

NextUrl == Tick \/ Call_build_url

SpecUrl == InitUrl /\ [][NextUrl]_vars

\* C15: two build_url calls with the same ticker, explicit end date, start
\* date and interval return the same URL and parameters, whatever was called
\* before and whatever the time of each call; two calls with the same
\* arguments differ at most in period2, the end default; build_url issues no
\* request.
C15_BuilderDeterministic ==
    /\ requests = <<>>
    /\ \A i, j \in 1..Len(built) :
          built[i].args = built[j].args =>
              /\ built[i].args.end_date.given => built[i].out = built[j].out
              /\ built[i].out.site = built[j].out.site
              /\ built[i].out.params.period1 = built[j].out.params.period1
              /\ built[i].out.params.interval = built[j].out.params.interval
              /\ built[i].out.params.events = built[j].out.params.events

C15_Witness ==
    \E i, j \in 1..Len(built) :
        /\ i < j /\ built[i].args = built[j].args /\ built[i].now < built[j].now
        /\ built[i].args.end_date.given /\ ~built[i].args.start_date.given
        /\ built[i].out = built[j].out

----------------------------------------------------------------------------
(* Claims about the extraction.                                             *)

\* The page of the finished call passes every check before the repair.
PageIntact ==
    /\ resp.marker /\ resp.parseable
    /\ (op = "_parse_json" => "QuoteSummaryStore" \in resp.stores)
    /\ (op = "_parse_json_series" => "QuoteTimeSeriesStore" \in resp.stores)

ExtractionDone == op \in {"_parse_json", "_parse_json_series"} /\ pc = "done"

\* The three shape failures: marker absent, named store absent, repaired
\* text not parseable.
MarkerAbsent == ~resp.marker
StoreAbsent ==
    /\ resp.marker /\ resp.parseable
    /\ (op = "_parse_json" => "QuoteSummaryStore" \notin resp.stores)
    /\ (op = "_parse_json_series" => "QuoteTimeSeriesStore" \notin resp.stores)
RepairedUnparseable == PageIntact /\ ~RepairedLoads(doc).ok

\* C4: every shape failure of the extraction (marker absent, store absent,
\* repaired text unparseable) is raised to the caller on both paths, no value
\* is returned after it, and a missing store is a 'store not found' error.
C4_ShapeFailureRaises ==
    ExtractionDone =>
        /\ (MarkerAbsent \/ StoreAbsent \/ RepairedUnparseable) => result.kind = "raise"
        /\ StoreAbsent => result.err = "ValueError"

\* The structural walk: an empty object becomes null, an object with a
\* "raw" key becomes that key's value, walked in turn.
RECURSIVE Walk(_)
Walk(v) ==
    CASE v.t = "obj" /\ Len(v.keys) = 0 -> JNull
      [] v.t = "obj" /\ HasKey(v, <<"raw">>) -> Walk(Get(v, <<"raw">>))
      [] v.t = "obj" -> JObj(v.keys, [i \in 1..Len(v.kids) |-> Walk(v.kids[i])])
      [] v.t = "list" -> JList([i \in 1..Len(v.kids) |-> Walk(v.kids[i])])
      [] OTHER -> v

\* C7: the repair equals the structural walk: for every store document the
\* repaired text parses, and parses to the document with every empty object
\* replaced by null and every object with a "raw" key replaced by its value.
C7_RepairIsStructuralWalk ==
    (op = "_parse_json" /\ pc = "done" /\ PageIntact) => result = Return(Walk(doc))

\* Whether an object with a "raw" key occurs in v.
RECURSIVE HasRaw(_)
HasRaw(v) ==
    \/ HasKey(v, <<"raw">>)
    \/ \E i \in 1..Len(v.kids) : HasRaw(v.kids[i])

\* C8: the repair is idempotent: repairing the repaired text of a store
\* document returns it unchanged, and the repaired document holds no object
\* with a "raw" key.
C8_RepairIdempotent ==
    (op = "_parse_json" /\ pc = "done" /\ result.kind = "return") =>
        /\ Repair(Repair(Dumps(doc))) = Repair(Dumps(doc))
        /\ ~HasRaw(result.val)

----------------------------------------------------------------------------
(* The earnings retrieval: get_earnings_for_date (recursive pagination) and *)
(* get_earnings_in_date_range.  Dates are day numbers.  earn holds          *)
(*   dates, i, earnings_data : the locals of get_earnings_in_date_range     *)
(*   date, offset, count     : the arguments of the innermost invocation of *)
(*                             get_earnings_for_date                        *)
(*   stack                   : the suspended invocations, outermost first,  *)
(*                             each with its offset and its page's rows     *)
(*   calls                   : the invocations made for the current date    *)
(*   same, total1            : whether every page of the current date       *)
(*                             reported the same total, and the first one   *)
(*   failed                  : the dates whose retrieval raised             *)
(* requests holds the page requests issued, in order, as <<date, offset>>;  *)
(* resp is the last page received, as the total it reports.                 *)
(* The rows of a page are one block, named by the page's date and offset.   *)

PageSize == 100
MaxPages == 2
MaxDay == 2

Days == 0..MaxDay

\* The totals the upstream may report.
Totals == {0} \cup {k * PageSize - 1 : k \in 1..MaxPages} \cup {k * PageSize : k \in 1..MaxPages}

\* stores['ScreenerResultsStore']['results']['rows'] of the page of date d at
\* offset o.
PageRows(d, o) == << <<d, o>> >>

RECURSIVE Concat(_, _)
\* current_earnings + more_earnings, from the frame i outwards to the innermost.
Concat(stack, i) == IF i > Len(stack) THEN <<>> ELSE stack[i].rows \o Concat(stack, i + 1)

\* offset >= count: the guard of line 1016, with the strict comparison instead.
BaseCase_strict(offset, count) == offset > count

\* offset >= count (line 1016).
BaseCase(offset, count) == offset >= count

\* An offset advanced by two pages.
NewOffset_skip(offset) == offset + 2 * PageSize

\* new_offset = offset + 100 (line 1031).
NewOffset(offset) == offset + PageSize

\* The dates up to end_date, end_date left out.
DateRange_exclusive(start_date, end_date) ==
    LET days_diff == end_date - start_date
    IN IF days_diff <= 0 THEN <<>>
       ELSE [k \in 1..days_diff |-> start_date + (k - 1)]

\* days_diff and dates of get_earnings_in_date_range (lines 1052-1059).
DateRange(start_date, end_date) ==
    LET days_diff == end_date - start_date
    IN IF days_diff + 1 <= 0 THEN <<>>
       ELSE [k \in 1..(days_diff + 1) |-> start_date + (k - 1)]

\* The first invocation for a date: offset = 0, count = 1.
Enter(e, d) == [e EXCEPT !.date = d, !.offset = 0, !.count = 1, !.stack = <<>>,
                         !.calls = 1, !.same = TRUE, !.total1 = 0]

\* earn after the date at index i was handled: i += 1 and, while i < len(dates),
\* the call for the next date.
Advance(e) ==
    LET e1 == [e EXCEPT !.i = e.i + 1]
    IN IF e1.i < Len(e1.dates) THEN Enter(e1, e1.dates[e1.i + 1]) ELSE e1

\* A retrieval that keeps the rows of the pages fetched before the failure.
OnDateFailure_partial(e) ==
    Advance([e EXCEPT !.earnings_data = e.earnings_data \o Concat(e.stack, 1),
                      !.failed = e.failed \cup {e.date}])

\* except Exception: pass (lines 1066-1067): earnings_data is left as it was.
OnDateFailure(e) == Advance([e EXCEPT !.failed = e.failed \cup {e.date}])

\* earnings_data += get_earnings_for_date(dates[i]) (line 1065).
OnDateReturn(e, rows) == Advance([e EXCEPT !.earnings_data = e.earnings_data \o rows])

EarnIdle == [dates |-> <<>>, i |-> 0, earnings_data |-> <<>>, date |-> 0, offset |-> 0,
             count |-> 1, stack |-> <<>>, calls |-> 0, same |-> TRUE,
             total1 |-> 0, failed |-> {}]

InitEarn ==
    /\ op = "idle" /\ pc = "idle"
    /\ args = <<>>
    /\ requests = <<>>
    /\ resp = <<>>
    /\ result = NoResult
    /\ doc = JNull
    /\ earn = EarnIdle
    /\ num = <<>>
    /\ clock = 0
    /\ built = <<>>

\* get_earnings_for_date(date), called directly.
Call_get_earnings_for_date ==
    /\ op = "idle"
    /\ \E d \in Days :
          /\ args' = [date |-> d]
          /\ earn' = Enter(earn, d)
    /\ op' = "get_earnings_for_date"
    /\ pc' = "call"
    /\ UNCHANGED <<requests, resp, result, doc, num, clock, built>>

\* get_earnings_in_date_range(start_date, end_date) up to its first call.
Call_get_earnings_in_date_range ==
    /\ op = "idle"
    /\ \E s \in Days, t \in Days :
          LET dates == DateRange(s, t)
          IN /\ args' = [start_date |-> s, end_date |-> t]
             /\ IF Len(dates) = 0
                THEN /\ earn' = [earn EXCEPT !.dates = dates]
                     /\ pc' = "done"
                     /\ result' = Return(<<>>)
                ELSE /\ earn' = Enter([earn EXCEPT !.dates = dates], dates[1])
                     /\ pc' = "call"
                     /\ result' = result
    /\ op' = "get_earnings_in_date_range"
    /\ UNCHANGED <<requests, resp, doc, num, clock, built>>

\* What the caller of the outermost get_earnings_for_date does once it raised.
Raised(e, err) ==
    IF op = "get_earnings_for_date"
    THEN /\ earn' = e
         /\ pc' = "done"
         /\ result' = Raise(err, "")
    ELSE LET e1 == OnDateFailure(e)
         IN /\ earn' = e1
            /\ IF e1.i < Len(e1.dates)
               THEN pc' = "call" /\ result' = result
               ELSE pc' = "done" /\ result' = Return(e1.earnings_data)

\* What the caller of the outermost get_earnings_for_date does with its list.
Returned(e, rows) ==
    IF op = "get_earnings_for_date"
    THEN /\ earn' = e
         /\ pc' = "done"
         /\ result' = Return(rows)
    ELSE LET e1 == OnDateReturn(e, rows)
         IN /\ earn' = e1
            /\ IF e1.i < Len(e1.dates)
               THEN pc' = "call" /\ result' = result
               ELSE pc' = "done" /\ result' = Return(e1.earnings_data)

\* One invocation past its guard: the page is fetched, its total read, and
\* the recursive call made with the advanced offset (lines 1019-1034).
Earnings_Fetch ==
    /\ pc = "call"
    /\ ~BaseCase(earn.offset, earn.count)
    /\ \E total \in Totals :
          /\ earn' = [earn EXCEPT
                         !.stack = Append(@, [offset |-> earn.offset,
                                              rows |-> PageRows(earn.date, earn.offset)]),
                         !.offset = NewOffset(earn.offset),
                         !.count = total,
                         !.calls = @ + 1,
                         !.same = earn.same /\ (earn.stack = <<>> \/ total = earn.total1),
                         !.total1 = IF earn.stack = <<>> THEN total ELSE @]
          /\ requests' = Append(requests, <<earn.date, earn.offset>>)
          /\ resp' = [total |-> total]
    /\ UNCHANGED <<op, pc, args, result, doc, num, clock, built>>

\* One invocation past its guard whose page request or page parse raises:
\* the exception leaves every suspended invocation.
Earnings_FetchFail ==
    /\ pc = "call"
    /\ ~BaseCase(earn.offset, earn.count)
    /\ requests' = Append(requests, <<earn.date, earn.offset>>)
    /\ Raised(earn, "Exception")
    /\ UNCHANGED <<op, args, resp, doc, num, clock, built>>

\* The invocation whose guard holds returns [] without fetching, and every
\* suspended invocation returns its rows followed by the rows it received.
Earnings_Return ==
    /\ pc = "call"
    /\ BaseCase(earn.offset, earn.count)
    /\ Returned(earn, Concat(earn.stack, 1))
    /\ UNCHANGED <<op, args, requests, resp, doc, num, clock, built>>

NextEarn ==
    \/ Call_get_earnings_for_date \/ Call_get_earnings_in_date_range
    \/ Earnings_Fetch \/ Earnings_FetchFail \/ Earnings_Return

SpecEarn == InitEarn /\ [][NextEarn]_vars

\* The calls are synchronous: a call that can take a step takes it.
SpecEarnFair == SpecEarn /\ WF_vars(NextEarn)

----------------------------------------------------------------------------
(* Claims about the earnings retrieval.                                     *)

\* The pages a total of t rows spans.
PagesOf(t) == (t + PageSize - 1) \div PageSize

AtLeastOne(n) == IF n < 1 THEN 1 ELSE n

\* The pages fetched for a date never exceed the pages its total spans (one
\* at least) while every page reports the same total; with a total equal to
\* the page size the finished call made one page fetch and one recursive
\* call, which returned the empty list without fetching.
C5_Bounded ==
    op = "get_earnings_for_date" =>
        /\ earn.same => Len(earn.stack) <= AtLeastOne(PagesOf(earn.total1))
        /\ (pc = "done" /\ result.kind = "return" /\ earn.same /\ earn.total1 = PageSize) =>
              /\ requests = << <<args.date, 0>> >>
              /\ earn.calls = 2
              /\ result.val = PageRows(args.date, 0)

\* C5: the paginated retrieval terminates when the upstream reports the same
\* total on every page: a call of get_earnings_for_date ends unless some page
\* reported a different total, within the pages that total spans; with a
\* total equal to the page size it makes exactly one page fetch and one
\* recursive call, which returns the empty list without fetching.
C5_PaginationTerminates ==
    /\ []C5_Bounded
    /\ (op = "get_earnings_for_date") ~> (pc = "done" \/ ~earn.same)

C5_Witness ==
    /\ op = "get_earnings_for_date" /\ pc = "done" /\ result.kind = "return"
    /\ earn.same /\ earn.total1 = PageSize /\ earn.calls = 2
    /\ requests = << <<args.date, 0>> >>

\* C6: in get_earnings_in_date_range a failure while fetching a date, on its
\* first or on a later page, is swallowed: the operation never raises, the
\* date contributes no record at all, every date of the range is still
\* fetched, and the rows of every page of the other dates are returned.
C6_DateFailureSwallowed ==
    op = "get_earnings_in_date_range" =>
        /\ result.kind # "raise"
        /\ pc = "done" =>
              /\ result.kind = "return"
              /\ \A k \in 1..Len(result.val) : result.val[k][1] \notin earn.failed
              /\ \A f \in 1..Len(requests) :
                    requests[f][1] \notin earn.failed =>
                       \E k \in 1..Len(result.val) : result.val[k] = requests[f]
              /\ \A j \in 1..Len(earn.dates) :
                    \E f \in 1..Len(requests) : requests[f] = <<earn.dates[j], 0>>

C6_Witness ==
    /\ op = "get_earnings_in_date_range" /\ pc = "done" /\ result.kind = "return"
    /\ \E f \in 1..Len(requests) :
          /\ requests[f][1] \in earn.failed /\ requests[f][2] > 0
          /\ \E k \in 1..Len(result.val) : result.val[k][1] > requests[f][1]

\* The offsets 0, 100, 200, ... of the first n pages of the date d.
PageOffsets(d, n) == [k \in 1..n |-> <<d, (k - 1) * 100>>]

\* What holds of get_earnings_for_date in every state: the pages requested
\* so far are those at offsets 0, 100, 200, ... in this order; a finished call
\* has requested offset 0; a call that returned has stopped at an offset no
\* less than the total of the last page and returns the rows of its pages in
\* ascending offset order.
C17_Pages ==
    op = "get_earnings_for_date" =>
        /\ requests = PageOffsets(args.date, Len(requests))
        /\ pc = "done" => Len(requests) >= 1
        /\ (pc = "done" /\ result.kind = "return") =>
              /\ Len(requests) * 100 >= resp.total
              /\ Len(result.val) = Len(requests)
              /\ \A k \in 1..Len(requests) :
                    <<result.val[k]>> = PageRows(args.date, (k - 1) * 100)

\* C17: get_earnings_for_date fetches the pages at offsets 0, 100, 200, ... in
\* this order, each once and offset 0 always; a page after the first is
\* fetched only at an offset less than the total the page before it reported,
\* so the call stops at the first offset that reaches that total; it returns
\* the rows of the fetched pages in ascending offset order.
C17_PagesInOrder ==
    /\ []C17_Pages
    /\ [][(op = "get_earnings_for_date" /\ requests # <<>> /\ requests' # requests) =>
             requests'[Len(requests')][2] < resp.total]_vars

C17_Witness ==
    /\ op = "get_earnings_for_date" /\ pc = "done" /\ result.kind = "return"
    /\ Len(requests) = 2 /\ resp.total = 2 * PageSize - 1
    /\ result.val = PageRows(args.date, 0) \o PageRows(args.date, PageSize)

\* The requests that start a date: those at offset 0.
Starts == SelectSeq(requests, LAMBDA r : r[2] = 0)

----------------------------------------------------------------------------
(* The Numeric Normalizer: force_float and _convert_to_numeric.  A string   *)
(* is a sequence of characters.  A float is kept exactly, as n / 10^d; a    *)
(* Python value is a float or a string s repeated rep times (rep = 1: s).   *)

MaxLen == 3
Million == 1000000
Billion == 1000000000

NumChars == {"1", "2", ".", "M", "B", "m", "a"}
NumDigits == {"1", "2"}

NumStrings == UNION {[1..n -> NumChars] : n \in 0..MaxLen}

PyFloat(n, d) == [kind |-> "float", n |-> n, d |-> d, s |-> <<>>, rep |-> 0]
PyStr(s) == [kind |-> "str", n |-> 0, d |-> 0, s |-> s, rep |-> 1]

DigitValue(c) == IF c = "1" THEN 1 ELSE 2

\* Whether float(s) accepts s: digits with at most one point and one digit
\* at least.
IsFloat(s) ==
    /\ \A i \in 1..Len(s) : s[i] \in NumDigits \cup {"."}
    /\ Cardinality({i \in 1..Len(s) : s[i] = "."}) <= 1
    /\ \E i \in 1..Len(s) : s[i] \in NumDigits

RECURSIVE DigitsValue(_, _)
\* The number the digits of s[1..i] spell, the point skipped.
DigitsValue(s, i) ==
    IF i = 0 THEN 0
    ELSE IF s[i] = "." THEN DigitsValue(s, i - 1)
         ELSE 10 * DigitsValue(s, i - 1) + DigitValue(s[i])

\* float(s) of an accepted s.
FloatOf(s) ==
    LET p == IndexOf(s, ".")
    IN PyFloat(DigitsValue(s, Len(s)), IF p = 0 THEN 0 ELSE Len(s) - p)

\* force_float(elt): lines 47-52.
force_float(elt) == IF IsFloat(elt) THEN FloatOf(elt) ELSE PyStr(elt)

RECURSIVE Log10(_)
Log10(k) == IF k < 10 THEN 0 ELSE 1 + Log10(k \div 10)

\* v * k for k a power of ten: a float is scaled, a string is repeated.
Times(v, k) ==
    IF v.kind = "float" THEN PyFloat(v.n, v.d - Log10(k))
    ELSE IF Len(v.s) = 0 THEN v ELSE [v EXCEPT !.rep = v.rep * k]

\* str.strip(c): every leading and every trailing c removed.
Strip(s, c) ==
    LET keep == {i \in 1..Len(s) : s[i] # c}
    IN IF keep = {} THEN <<>>
       ELSE LET lo == CHOOSE i \in keep : \A j \in keep : i <= j
                hi == CHOOSE i \in keep : \A j \in keep : j <= i
            IN SubSeq(s, lo, hi)

\* c in s
Contains(s, c) == \E i \in 1..Len(s) : s[i] = c

\* _convert_to_numeric(s): lines 54-64.
_convert_to_numeric(s) ==
    IF Contains(s, "M") THEN Times(force_float(Strip(s, "M")), Million)
    ELSE IF Contains(s, "B") THEN Times(force_float(Strip(s, "B")), Billion)
    ELSE force_float(s)

InitNum ==
    /\ op = "idle" /\ pc = "idle"
    /\ args = <<>>
    /\ requests = <<>>
    /\ resp = <<>>
    /\ result = NoResult
    /\ doc = JNull
    /\ earn = EarnIdle
    /\ num \in NumStrings
    /\ clock = 0
    /\ built = <<>>

Call_force_float ==
    /\ op = "idle"
    /\ op' = "force_float"
    /\ pc' = "done"
    /\ result' = Return(force_float(num))
    /\ UNCHANGED <<args, requests, resp, doc, earn, num, clock, built>>

Call_convert_to_numeric ==
    /\ op = "idle"
    /\ op' = "_convert_to_numeric"
    /\ pc' = "done"
    /\ result' = Return(_convert_to_numeric(num))
    /\ UNCHANGED <<args, requests, resp, doc, earn, num, clock, built>>

NextNum == Call_force_float \/ Call_convert_to_numeric

SpecNum == InitNum /\ [][NextNum]_vars

----------------------------------------------------------------------------
(* Claims about the Numeric Normalizer.                                     *)

\* C9: for every input string, force_float and _convert_to_numeric return a
\* float or the input itself, and never raise.
C9_FloatOrOriginal ==
    (op \in {"force_float", "_convert_to_numeric"} /\ pc = "done") =>
        /\ result.kind = "return"
        /\ result.val.kind = "float" \/ result.val = PyStr(num)

\* s is a numeral followed by one trailing c.
NumeralWith(s, c) == Len(s) >= 2 /\ s[Len(s)] = c /\ IsFloat(SubSeq(s, 1, Len(s) - 1))

\* C10: _convert_to_numeric scales exactly when the string is a numeral
\* followed by a trailing 'M' or 'B': n'M' gives n x 1,000,000, n'B' gives
\* n x 1,000,000,000, a plain numeral its float, and any other string (an
\* 'M' or 'B' elsewhere, a non-numeric string) is returned as it is.
C10_ScalesOnTrailingSuffix ==
    (op = "_convert_to_numeric" /\ pc = "done") =>
        result.val =
            IF NumeralWith(num, "M")
            THEN Times(FloatOf(SubSeq(num, 1, Len(num) - 1)), Million)
            ELSE IF NumeralWith(num, "B")
            THEN Times(FloatOf(SubSeq(num, 1, Len(num) - 1)), Billion)
            ELSE IF IsFloat(num) THEN FloatOf(num)
            ELSE PyStr(num)

----------------------------------------------------------------------------
(* The listing fetchers.  A symbol is a sequence of characters.  A listing  *)
(* page is the symbol column of its table, in upstream order.  A listing    *)
(* file is a text of units: the separators BAR and CRLF and the fields, a   *)
(* field being a sequence of characters and words (an empty field is no     *)
(* unit at all).                                                            *)

MaxSymbols == 3

Symbols == {<<"A">>, <<"B">>, <<"A", ".", "B">>, <<"A", "A">>}

Listings == UNION {[1..n -> Symbols] : n \in 0..MaxSymbols}

\* The code point order of the characters of a symbol.
CharRank(c) == CASE c = "-" -> 45 [] c = "." -> 46 [] c = "A" -> 65 [] c = "B" -> 66 [] OTHER -> 0

RECURSIVE LessFrom(_, _, _)
\* a < b for Python strings, decided from position i on.
LessFrom(a, b, i) ==
    IF i > Len(b) THEN FALSE
    ELSE IF i > Len(a) THEN TRUE
    ELSE IF CharRank(a[i]) # CharRank(b[i]) THEN CharRank(a[i]) < CharRank(b[i])
    ELSE LessFrom(a, b, i + 1)

StrLess(a, b) == LessFrom(a, b, 1)

\* sorted(column.tolist())
Sorted(column) == SortSeq(column, StrLess)

\* Series.str.replace(".", "-", regex=True): pandas before 2.0 takes a
\* one-character pattern literally, pandas 2 takes "." as the regular
\* expression that matches every character.
ReplaceDot(sym, literal) ==
    [i \in 1..Len(sym) |-> IF ~literal \/ sym[i] = "." THEN "-" ELSE sym[i]]

\* tickers_sp500 in symbol-list mode.
tickers_sp500(column, literal) ==
    Sorted([i \in 1..Len(column) |-> ReplaceDot(column[i], literal)])

\* tickers_dow, tickers_ibovespa, tickers_nifty50, tickers_ftse100 and
\* tickers_ftse250 in symbol-list mode: sorted(table[<column>].tolist()).
tickers_html(column) == Sorted(column)

HtmlFetchers == {"tickers_dow", "tickers_ibovespa", "tickers_nifty50", "tickers_ftse100",
                 "tickers_ftse250"}

BAR == <<"|">>
CRLF == <<"\r\n">>

RECURSIVE Rows(_, _, _)
\* The text of the rows from i on: symbol | name | last field, CRLF.
Rows(column, i, other) ==
    IF i > Len(column) THEN <<>>
    ELSE <<column[i], BAR, <<"name">>, BAR, IF other THEN column[i] ELSE <<"N">>, CRLF>>
         \o Rows(column, i + 1, other)

FileFooter == << <<"File", " ", "Creation", " ", "Time">>, BAR, BAR, CRLF>>

\* nasdaqlisted.txt: header, one row per symbol, the file creation line.
NasdaqFile(column) ==
    << <<"Symbol">>, BAR, <<"Security", " ", "Name">>, BAR, <<"NextShares">>, CRLF>>
    \o Rows(column, 1, FALSE) \o FileFooter

\* otherlisted.txt: its last column is the NASDAQ symbol.
OtherFile(column) ==
    << <<"ACT", " ", "Symbol">>, BAR, <<"Security", " ", "Name">>, BAR, <<"NASDAQ", " ", "Symbol">>, CRLF>>
    \o Rows(column, 1, TRUE) \o FileFooter

RECURSIVE SplitFrom(_, _, _)
\* str.split(sep): the pieces of text from position i on.
SplitFrom(text, i, sep) ==
    LET j == FirstAt(text, i, sep)
    IN IF j = 0 THEN <<SubSeq(text, i, Len(text))>>
       ELSE <<SubSeq(text, i, j - 1)>> \o SplitFrom(text, j + 1, sep)

Split(text, sep) == SplitFrom(text, 1, sep)

\* w in x, for a word w and a piece x of the text.
HasWord(x, w) == \E i \in 1..Len(x) : \E k \in 1..Len(x[i]) : x[i][k] = w

\* The string a run of units spells: the fields joined.
RECURSIVE Joined(_, _)
Joined(x, i) == IF i > Len(x) THEN <<>> ELSE x[i] \o Joined(x, i + 1)

\* x.split("\r\n")[1]
AfterNewline(x) == Joined(Split(x, CRLF)[2], 1)

\* tickers_nasdaq in symbol-list mode: lines 158-168.
tickers_nasdaq(info) ==
    LET splits == Split(info, BAR)
        withnl == SelectSeq(splits, LAMBDA x : IndexOf(x, CRLF) > 0)
        kept == SelectSeq(withnl, LAMBDA x : ~HasWord(x, "NASDAQ") /\ x # <<CRLF>>)
        tickers == [i \in 1..Len(kept) |-> AfterNewline(kept[i])]
    IN SelectSeq(tickers, LAMBDA t : \A k \in 1..Len(t) : t[k] # "File")

\* tickers_other in symbol-list mode: lines 187-196.
tickers_other(info) ==
    LET splits == Split(info, BAR)
        withnl == SelectSeq(splits, LAMBDA x : IndexOf(x, CRLF) > 0)
        tickers == [i \in 1..Len(withnl) |-> AfterNewline(withnl[i])]
    IN SelectSeq(tickers, LAMBDA t : \A k \in 1..Len(t) : t[k] # "File")

InitList ==
    /\ op = "idle" /\ pc = "idle"
    /\ args = <<>>
    /\ requests = <<>>
    /\ resp \in Listings
    /\ result = NoResult
    /\ doc = JNull
    /\ earn = <<>>
    /\ num = <<>>
    /\ clock = 0
    /\ built = <<>>

\* What a listing fetcher returns: the table in company-data mode, the
\* symbol list otherwise.
Listing(include_company_data, table, tickers) ==
    IF include_company_data THEN Return([table |-> table]) ELSE Return(tickers)

Call_tickers_sp500 ==
    /\ op = "idle"
    /\ \E include_company_data \in BOOLEAN, literal \in BOOLEAN :
          /\ args' = [include_company_data |-> include_company_data]
          /\ result' = Listing(include_company_data,
                               [i \in 1..Len(resp) |-> ReplaceDot(resp[i], literal)],
                               tickers_sp500(resp, literal))
    /\ op' = "tickers_sp500"
    /\ pc' = "done"
    /\ requests' = Append(requests, "page")
    /\ UNCHANGED <<resp, doc, earn, num, clock, built>>

Call_tickers_html ==
    /\ op = "idle"
    /\ \E include_company_data \in BOOLEAN, f \in HtmlFetchers :
          /\ op' = f
          /\ args' = [include_company_data |-> include_company_data]
          /\ result' = Listing(include_company_data, resp, tickers_html(resp))
    /\ pc' = "done"
    /\ requests' = Append(requests, "page")
    /\ UNCHANGED <<resp, doc, earn, num, clock, built>>

Call_tickers_nasdaq ==
    /\ op = "idle"
    /\ \E include_company_data \in BOOLEAN :
          /\ args' = [include_company_data |-> include_company_data]
          /\ result' = Listing(include_company_data, resp, tickers_nasdaq(NasdaqFile(resp)))
    /\ op' = "tickers_nasdaq"
    /\ pc' = "done"
    /\ requests' = Append(requests, "file")
    /\ UNCHANGED <<resp, doc, earn, num, clock, built>>

Call_tickers_other ==
    /\ op = "idle"
    /\ \E include_company_data \in BOOLEAN :
          /\ args' = [include_company_data |-> include_company_data]
          /\ result' = Listing(include_company_data, resp, tickers_other(OtherFile(resp)))
    /\ op' = "tickers_other"
    /\ pc' = "done"
    /\ requests' = Append(requests, "file")
    /\ UNCHANGED <<resp, doc, earn, num, clock, built>>

NextList ==
    \/ Call_tickers_sp500 \/ Call_tickers_html
    \/ Call_tickers_nasdaq \/ Call_tickers_other

SpecList == InitList /\ [][NextList]_vars

----------------------------------------------------------------------------
(* Claims about the listing fetchers.                                       *)

ListingOps == HtmlFetchers \cup {"tickers_sp500", "tickers_nasdaq", "tickers_other"}

\* How often x occurs in the sequence s.
Count(s, x) == Cardinality({i \in 1..Len(s) : s[i] = x})

\* The symbols of the source, as the fetcher names them ('.' written '-' by
\* tickers_sp500).
SourceSymbols ==
    IF op = "tickers_sp500" THEN [i \in 1..Len(resp) |-> ReplaceDot(resp[i], TRUE)] ELSE resp

\* C16: every listing fetcher in symbol-list mode returns the symbols of its
\* source, each as often as the source lists it, in ascending order, whatever
\* the upstream order, the flat-file fetchers included.
C16_ListingSorted ==
    (op \in ListingOps /\ pc = "done" /\ ~args.include_company_data) =>
        /\ result.kind = "return"
        /\ \A i, j \in 1..Len(result.val) : i < j => ~StrLess(result.val[j], result.val[i])
        /\ Len(result.val) = Len(resp)
        /\ \A i \in 1..Len(resp) :
              Count(result.val, SourceSymbols[i]) = Count(SourceSymbols, SourceSymbols[i])

====
